---- MODULE Spec2Model ----
(***************************************************************************)
(* Model of the feel-o-cinema backend (src/app.py): the Flask handlers for *)
(* Google login, watchlists, journal entries and the watchlist cover,      *)
(* running against three MongoDB collections.  A handler is a sequence of  *)
(* steps, one per access to a collection; steps of different requests      *)
(* interleave (the development server is threaded, the store is shared).   *)
(***************************************************************************)
EXTENDS Integers, Sequences, FiniteSets, TLC

\* ---------------------------------------------------------------- domains

Clients == {"c1", "c2"}
Emails == {"a@x.com", "b@x.com"}
NoEmail == ""
UserNames == {"Ann", "Bob"}
LoginName == "Ann"
WNames == {"Favorites", "Later"}
NoName == ""

Dune == [title |-> "Dune", poster_path |-> "/abc.jpg"]
Solaris == [title |-> "Solaris", poster_path |-> "/xyz.jpg"]
Untitled == [title |-> "Untitled", poster_path |-> ""]
NoMovie == [title |-> "", poster_path |-> ""]
Movies == {Dune, Untitled}
CoverMovies == {Dune, Solaris, Untitled}

JournalInputs == {[movie_title |-> "Dune", entry |-> "great", date |-> "2024-01-01"]}

FetchOutcomes == {"200", "404", "raise"}

\* bounds of the exploration: requests received under each specification
MaxRequests == 4
MaxSeqRequests == 4
MaxWatchRequests == 5
MaxCoverRequests == 2
MaxMovies == 2
MaxJournals == 1
MaxCoverMovies == 5

\* program constants
MaxPosters == 4
MaxCols == 2
PosterW == 600
PosterH == 900

VARIABLES users, watchlists, journals, session, pc, req, sent, verified, acked, nreq, run

vars == <<users, watchlists, journals, session, pc, req, sent, verified, acked, nreq, run>>
stores == <<users, watchlists, journals>>

\* ---------------------------------------------------------------- helpers

Min(S) == CHOOSE x \in S : \A y \in S : x <= y

MinOf(a, b) == IF a <= b THEN a ELSE b

CeilDiv(a, b) == (a + b - 1) \div b

Range(s) == {s[i] : i \in 1..Len(s)}

NoImage == [kind |-> "none", src |-> "", w |-> 0, h |-> 0, pastes |-> <<>>]

NoReq == [op |-> "none", email |-> NoEmail, name |-> NoName, uname |-> NoName,
          movie |-> NoMovie, len0 |-> 0, outcomes |-> <<>>, doc |-> <<>>]

NoClient == "none"

\* what a step sends back: nothing (status 0), or the response that ends the request
Resp(c, r, st, ds, im) == [client |-> c, req |-> r, status |-> st, docs |-> ds, image |-> im]

Silent(c) == Resp(c, NoReq, 0, <<>>, NoImage)

\* ---------------------------------------------------------------- store queries

\* a filter that leaves the owner out
WatchlistMatchesAnyOwner(store, e, n) ==
    {i \in 1..Len(store) : store[i].name = n}

\* the indexes of the documents a {"user_email": e, "name": n} filter matches
WatchlistMatches(store, e, n) ==
    {i \in 1..Len(store) : store[i].user_email = e /\ store[i].name = n}

\* find_one / update_one act on the first matching document; 0 when none
WatchlistIdx(store, e, n) ==
    IF WatchlistMatches(store, e, n) = {} THEN 0 ELSE Min(WatchlistMatches(store, e, n))

\* find_one({"user_email": e, "name": n}): a sequence of zero or one document
FindOneWatchlist(store, e, n) ==
    IF WatchlistIdx(store, e, n) = 0 THEN <<>> ELSE <<store[WatchlistIdx(store, e, n)]>>

\* a find with no filter
FindAll(store, e) == store

\* find({"user_email": e}) on either collection, in store order
OwnedBy(d, e) == d.user_email = e

FindByOwner(store, e) == SelectSeq(store, LAMBDA d : OwnedBy(d, e))

\* a lookup that never finds the user
FindOneUserNone(store, e) == <<>>

\* find_one({"email": e}) on the users collection
FindOneUser(store, e) ==
    LET S == {i \in 1..Len(store) : store[i].email = e}
    IN  IF S = {} THEN <<>> ELSE <<store[Min(S)]>>

NewWatchlist(e, n) == [name |-> n, user_email |-> e, movies |-> <<>>]

\* $addToSet in place of $push: a movie already in the sequence is not added
PushMovieUnique(d, m) ==
    IF m \in Range(d.movies) THEN d ELSE [d EXCEPT !.movies = Append(@, m)]

\* the update document {"$push": {"movies": m}} applied to one document
PushMovie(d, m) == [d EXCEPT !.movies = Append(@, m)]

\* the same update with upsert=True
UpdateOnePushUpsert(store, e, n, m) ==
    IF WatchlistIdx(store, e, n) = 0
    THEN Append(store, [name |-> n, user_email |-> e, movies |-> <<m>>])
    ELSE [store EXCEPT ![WatchlistIdx(store, e, n)] = PushMovie(@, m)]

\* a read-modify-write in the handler: the sequence as it was when the request
\* was received, with the movie appended, is written back
UpdateOneReadModifyWrite(store, e, n, m) ==
    IF WatchlistIdx(store, e, n) = 0 THEN store
    ELSE LET r == CHOOSE r \in {req[c] : c \in {d \in Clients : pc[d] = "am_update"}} :
                      r.email = e /\ r.name = n /\ r.movie = m
         IN  [store EXCEPT ![WatchlistIdx(store, e, n)].movies =
                 Append(SubSeq(@, 1, MinOf(r.len0, Len(@))), m)]

\* update_one(filter, {"$push": ...}): the first match is updated, no upsert
UpdateOnePush(store, e, n, m) ==
    IF WatchlistIdx(store, e, n) = 0 THEN store
    ELSE [store EXCEPT ![WatchlistIdx(store, e, n)] = PushMovie(@, m)]

\* result.modified_count of that update
ModifiedCount(store, e, n) == IF WatchlistIdx(store, e, n) = 0 THEN 0 ELSE 1

\* a handler with the guard left out
AuthorizedAlways(c) == TRUE

\* the guard every handler but google_auth starts with
Authorized(c) == session[c] # NoEmail

\* ---------------------------------------------------------------- cover composition

\* watchlist["movies"][:4]
Candidates(movies) == SubSeq(movies, 1, MinOf(MaxPosters, Len(movies)))

\* one pass of the loop body: "skip" (no poster_path, or a status other than 200),
\* "raise" (requests.get raised), or "poster" (the image was appended)
FetchOne(movie, outcome) ==
    IF movie.poster_path = "" THEN "skip"
    ELSE IF outcome = "raise" THEN "raise"
    ELSE IF outcome = "200" THEN "poster"
    ELSE "skip"

\* the loop over the candidates: the posters appended, and whether a fetch raised
\* (an exception leaves the loop and the handler)
RECURSIVE FetchPosters(_, _, _)
FetchPosters(ms, outs, acc) ==
    IF ms = <<>> THEN [raised |-> FALSE, posters |-> acc]
    ELSE IF FetchOne(Head(ms), Head(outs)) = "raise" THEN [raised |-> TRUE, posters |-> acc]
    ELSE IF FetchOne(Head(ms), Head(outs)) = "poster"
         THEN FetchPosters(Tail(ms), Tail(outs), Append(acc, Head(ms).poster_path))
    ELSE FetchPosters(Tail(ms), Tail(outs), acc)

GridCols(n) == MinOf(MaxCols, n)

\* floor in place of math.ceil
GridRowsFloor(n) == n \div GridCols(n)

GridRows(n) == CeilDiv(n, GridCols(n))

\* collage.paste(img, (col*600, row*900)) for the i-th poster, i counted from 0
Paste(src, i, cols) ==
    [src |-> src, x |-> (i % cols) * PosterW, y |-> (i \div cols) * PosterH,
     w |-> PosterW, h |-> PosterH]

\* the image the handler sends for the posters it holds
Compose(posters) ==
    IF posters = <<>>
    THEN [kind |-> "default", src |-> "static/default-cover.jpg", w |-> 0, h |-> 0,
          pastes |-> <<>>]
    ELSE IF Len(posters) = 1
    THEN [kind |-> "raw", src |-> posters[1], w |-> 0, h |-> 0, pastes |-> <<>>]
    ELSE [kind |-> "collage", src |-> "",
          w |-> PosterW * GridCols(Len(posters)),
          h |-> PosterH * GridRows(Len(posters)),
          pastes |-> [i \in 1..Len(posters) |->
                        Paste(posters[i], i - 1, GridCols(Len(posters)))]]

\* ---------------------------------------------------------------- state

Labels == {"idle", "auth_find", "auth_insert", "cw_find", "cw_insert", "am_update",
           "gws_find", "gw_find", "je_insert", "jes_find", "cov_find", "cov_render"}

GuardedOps == {"create", "add", "list", "get", "jadd", "jlist", "cover"}

TypeOK ==
    /\ session \in [Clients -> Emails \cup {NoEmail}]
    /\ pc \in [Clients -> Labels]
    /\ nreq \in 0..run.limit
    /\ sent.client \in Clients \cup {NoClient}
    /\ sent.status \in {0, 200, 400, 401, 404, 500}
    /\ \A c \in Clients : pc[c] = "idle" => req[c] = NoReq

\* empty collections, no session, no request running
Fresh ==
    /\ users = <<>>
    /\ watchlists = <<>>
    /\ journals = <<>>
    /\ session = [c \in Clients |-> NoEmail]
    /\ pc = [c \in Clients |-> "idle"]
    /\ req = [c \in Clients |-> NoReq]
    /\ sent = Silent(NoClient)
    /\ verified = [e \in Emails |-> NoName]
    /\ acked = [k \in Emails \X WNames |-> 0]
    /\ nreq = 0

\* how the server is run and explored: threaded or one request at a time, the
\* number of requests it receives, the names the identity provider yields
Run(threaded, limit, names) == [threaded |-> threaded, limit |-> limit, names |-> names]

Init == Fresh /\ run = Run(TRUE, MaxRequests, {LoginName})

\* no request of another client is running
Quiet(c) == \A d \in Clients \ {c} : pc[d] = "idle"

\* a request of client c reaches its handler
Receive(c) ==
    /\ pc[c] = "idle"
    /\ run.threaded \/ Quiet(c)
    /\ nreq < run.limit
    /\ nreq' = nreq + 1
    /\ run' = run

\* the handler goes on to its next store access
Goto(c, r, label) ==
    /\ pc' = [pc EXCEPT ![c] = label]
    /\ req' = [req EXCEPT ![c] = r]
    /\ sent' = Silent(c)

\* the handler returns: the response goes out and its locals are gone
Reply(c, r, st, ds, im) ==
    /\ pc' = [pc EXCEPT ![c] = "idle"]
    /\ req' = [req EXCEPT ![c] = NoReq]
    /\ sent' = Resp(c, r, st, ds, im)

\* user_email = session.get("user_email"); if not user_email: return 401
Guarded(c, r, label) ==
    /\ Receive(c)
    /\ IF Authorized(c)
       THEN Goto(c, [r EXCEPT !.email = session[c]], label)
       ELSE Reply(c, r, 401, <<>>, NoImage)
    /\ UNCHANGED <<stores, session, verified, acked>>

\* ---------------------------------------------------------------- google_auth

AuthReq == [NoReq EXCEPT !.op = "auth"]

\* id_token.verify_oauth2_token raises for the token: 401, nothing else happens
AuthReject(c) ==
    /\ Receive(c)
    /\ Reply(c, AuthReq, 401, <<>>, NoImage)
    /\ UNCHANGED <<stores, session, verified, acked>>

\* id_token.verify_oauth2_token yields the token's email and name
AuthVerify(c, e, n) ==
    /\ Receive(c)
    /\ Goto(c, [AuthReq EXCEPT !.email = e, !.uname = n], "auth_find")
    /\ verified' = IF verified[e] = NoName THEN [verified EXCEPT ![e] = n] ELSE verified
    /\ UNCHANGED <<stores, session, acked>>

\* the user record the handler goes on with after find_one: the one found, or a new one
UserToInsert(r) == [email |-> r.email, name |-> r.uname]

\* users_collection.find_one({"email": ...}); an existing user is logged in as is
AuthFind(c) ==
    /\ pc[c] = "auth_find"
    /\ IF FindOneUser(users, req[c].email) # <<>>
       THEN /\ session' = [session EXCEPT ![c] = FindOneUser(users, req[c].email)[1].email]
            /\ Reply(c, req[c], 200, FindOneUser(users, req[c].email), NoImage)
       ELSE /\ Goto(c, req[c], "auth_insert")
            /\ UNCHANGED session
    /\ UNCHANGED <<stores, verified, acked, nreq, run>>

\* users_collection.insert_one(user); session["user_email"] = user["email"]
AuthInsert(c) ==
    /\ pc[c] = "auth_insert"
    /\ users' = Append(users, UserToInsert(req[c]))
    /\ session' = [session EXCEPT ![c] = UserToInsert(req[c]).email]
    /\ Reply(c, req[c], 200, <<UserToInsert(req[c])>>, NoImage)
    /\ UNCHANGED <<watchlists, journals, verified, acked, nreq, run>>

\* ---------------------------------------------------------------- create_watchlist

CreateBegin(c, n) == Guarded(c, [NoReq EXCEPT !.op = "create", !.name = n], "cw_find")

CreateFind(c) ==
    /\ pc[c] = "cw_find"
    /\ IF FindOneWatchlist(watchlists, req[c].email, req[c].name) # <<>>
       THEN Reply(c, req[c], 400, <<>>, NoImage)
       ELSE Goto(c, req[c], "cw_insert")
    /\ UNCHANGED <<stores, session, verified, acked, nreq, run>>

CreateInsert(c) ==
    /\ pc[c] = "cw_insert"
    /\ watchlists' = Append(watchlists, NewWatchlist(req[c].email, req[c].name))
    /\ Reply(c, req[c], 200, <<NewWatchlist(req[c].email, req[c].name)>>, NoImage)
    /\ UNCHANGED <<users, journals, session, verified, acked, nreq, run>>

\* ---------------------------------------------------------------- add_movie_to_watchlist

\* the movies the store holds or is about to be sent, against the exploration bound
MoviesInFlight == Cardinality({c \in Clients : pc[c] = "am_update"})

RoomForMovie ==
    \A i \in 1..Len(watchlists) : Len(watchlists[i].movies) + MoviesInFlight < MaxMovies

\* the length of the movie sequence add_movie's filter matches, 0 when it matches none
TargetLen(e, n) ==
    IF FindOneWatchlist(watchlists, e, n) = <<>> THEN 0
    ELSE Len(FindOneWatchlist(watchlists, e, n)[1].movies)

AddBegin(c, n, m) ==
    /\ RoomForMovie
    /\ Guarded(c, [NoReq EXCEPT !.op = "add", !.name = n, !.movie = m,
                                !.len0 = TargetLen(session[c], n)], "am_update")

AddUpdate(c) ==
    /\ pc[c] = "am_update"
    /\ watchlists' = UpdateOnePush(watchlists, req[c].email, req[c].name, req[c].movie)
    /\ IF ModifiedCount(watchlists, req[c].email, req[c].name) > 0
       THEN /\ Reply(c, req[c], 200, <<>>, NoImage)
            /\ acked' = [acked EXCEPT ![<<req[c].email, req[c].name>>] = @ + 1]
       ELSE /\ Reply(c, req[c], 404, <<>>, NoImage)
            /\ acked' = acked
    /\ UNCHANGED <<users, journals, session, verified, nreq, run>>

\* ---------------------------------------------------------------- get_watchlists, get_watchlist

ListBegin(c) == Guarded(c, [NoReq EXCEPT !.op = "list"], "gws_find")

ListFind(c) ==
    /\ pc[c] = "gws_find"
    /\ Reply(c, req[c], 200, FindByOwner(watchlists, req[c].email), NoImage)
    /\ UNCHANGED <<stores, session, verified, acked, nreq, run>>

GetBegin(c, n) == Guarded(c, [NoReq EXCEPT !.op = "get", !.name = n], "gw_find")

\* what get_watchlist answers for what the store holds: the status and the document
GetWatchlistStatus(store, e, n) == IF FindOneWatchlist(store, e, n) = <<>> THEN 404 ELSE 200

GetFind(c) ==
    /\ pc[c] = "gw_find"
    /\ Reply(c, req[c], GetWatchlistStatus(watchlists, req[c].email, req[c].name),
             FindOneWatchlist(watchlists, req[c].email, req[c].name), NoImage)
    /\ UNCHANGED <<stores, session, verified, acked, nreq, run>>

\* ---------------------------------------------------------------- journal

NewEntry(e, j) ==
    [user_email |-> e, movie_title |-> j.movie_title, entry |-> j.entry, date |-> j.date]

EntriesInFlight == Cardinality({c \in Clients : pc[c] = "je_insert"})

JournalAddBegin(c, j) ==
    /\ Len(journals) + EntriesInFlight < MaxJournals
    /\ Guarded(c, [NoReq EXCEPT !.op = "jadd", !.doc = <<j>>], "je_insert")

JournalInsert(c) ==
    /\ pc[c] = "je_insert"
    /\ journals' = Append(journals, NewEntry(req[c].email, req[c].doc[1]))
    /\ Reply(c, req[c], 200, <<NewEntry(req[c].email, req[c].doc[1])>>, NoImage)
    /\ UNCHANGED <<users, watchlists, session, verified, acked, nreq, run>>

JournalListBegin(c) == Guarded(c, [NoReq EXCEPT !.op = "jlist"], "jes_find")

JournalListFind(c) ==
    /\ pc[c] = "jes_find"
    /\ Reply(c, req[c], 200, FindByOwner(journals, req[c].email), NoImage)
    /\ UNCHANGED <<stores, session, verified, acked, nreq, run>>

\* ---------------------------------------------------------------- get_watchlist_cover

CoverBegin(c, n) == Guarded(c, [NoReq EXCEPT !.op = "cover", !.name = n], "cov_find")

CoverFind(c) ==
    /\ pc[c] = "cov_find"
    /\ IF FindOneWatchlist(watchlists, req[c].email, req[c].name) = <<>>
       THEN Reply(c, req[c], 404, <<>>, NoImage)
       ELSE Goto(c, [req[c] EXCEPT !.doc =
                        FindOneWatchlist(watchlists, req[c].email, req[c].name)],
                 "cov_render")
    /\ UNCHANGED <<stores, session, verified, acked, nreq, run>>

\* the fetch loop and the composition, on the document read; an exception
\* out of requests.get is not handled and ends the request with status 500
CoverRender(c) ==
    /\ pc[c] = "cov_render"
    /\ \E outs \in [1..Len(Candidates(req[c].doc[1].movies)) -> FetchOutcomes] :
          IF FetchPosters(Candidates(req[c].doc[1].movies), outs, <<>>).raised
          THEN Reply(c, [req[c] EXCEPT !.outcomes = outs], 500, <<>>, NoImage)
          ELSE Reply(c, [req[c] EXCEPT !.outcomes = outs], 200, <<>>,
                     Compose(FetchPosters(Candidates(req[c].doc[1].movies), outs,
                                          <<>>).posters))
    /\ UNCHANGED <<stores, session, verified, acked, nreq, run>>

\* ---------------------------------------------------------------- specifications

ClientStep(c) ==
    \/ AuthReject(c)
    \/ \E e \in Emails, n \in run.names : AuthVerify(c, e, n)
    \/ AuthFind(c)
    \/ AuthInsert(c)
    \/ \E n \in WNames : CreateBegin(c, n)
    \/ CreateFind(c)
    \/ CreateInsert(c)
    \/ \E n \in WNames, m \in Movies : AddBegin(c, n, m)
    \/ AddUpdate(c)
    \/ ListBegin(c)
    \/ ListFind(c)
    \/ \E n \in WNames : GetBegin(c, n)
    \/ GetFind(c)
    \/ \E j \in JournalInputs : JournalAddBegin(c, j)
    \/ JournalInsert(c)
    \/ JournalListBegin(c)
    \/ JournalListFind(c)
    \/ \E n \in WNames : CoverBegin(c, n)
    \/ CoverFind(c)
    \/ CoverRender(c)

Next == \E c \in Clients : ClientStep(c)

\* every handler, requests interleaved
Spec == Init /\ [][Next]_vars

\* every handler, one request at a time
InitSeq == Fresh /\ run = Run(FALSE, MaxSeqRequests, UserNames)

SpecSeq == InitSeq /\ [][Next]_vars

\* the login and watchlist handlers alone, interleaved
InitWatch == Fresh /\ run = Run(TRUE, MaxWatchRequests, {LoginName})

WatchStep(c) ==
    \/ \E e \in Emails, n \in run.names : AuthVerify(c, e, n)
    \/ AuthFind(c)
    \/ AuthInsert(c)
    \/ \E n \in WNames : CreateBegin(c, n)
    \/ CreateFind(c)
    \/ CreateInsert(c)
    \/ \E n \in WNames, m \in Movies : AddBegin(c, n, m)
    \/ AddUpdate(c)
    \/ \E n \in WNames : GetBegin(c, n)
    \/ GetFind(c)

NextWatch == \E c \in Clients : WatchStep(c)

SpecWatch == InitWatch /\ [][NextWatch]_vars

\* the cover handler alone, on a store that holds one watchlist of one logged-in user
RECURSIVE SeqsUpTo(_, _)
SeqsUpTo(S, n) ==
    IF n = 0 THEN {<<>>}
    ELSE SeqsUpTo(S, n - 1) \cup
         {Append(s, x) : s \in {t \in SeqsUpTo(S, n - 1) : Len(t) = n - 1}, x \in S}

CoverOwner == "a@x.com"
CoverClient == "c1"
CoverName == "Favorites"

InitCover ==
    /\ users = <<[email |-> CoverOwner, name |-> LoginName]>>
    /\ \E ms \in SeqsUpTo(CoverMovies, MaxCoverMovies) :
          /\ watchlists = <<[name |-> CoverName, user_email |-> CoverOwner, movies |-> ms]>>
          /\ acked = [k \in Emails \X WNames |->
                        IF k = <<CoverOwner, CoverName>> THEN Len(ms) ELSE 0]
    /\ journals = <<>>
    /\ session = [c \in Clients |-> IF c = CoverClient THEN CoverOwner ELSE NoEmail]
    /\ pc = [c \in Clients |-> "idle"]
    /\ req = [c \in Clients |-> NoReq]
    /\ sent = Silent(NoClient)
    /\ verified = [e \in Emails |-> IF e = CoverOwner THEN LoginName ELSE NoName]
    /\ nreq = 0
    /\ run = Run(TRUE, MaxCoverRequests, {LoginName})

CoverStep(c) ==
    \/ \E n \in WNames : CoverBegin(c, n)
    \/ CoverFind(c)
    \/ CoverRender(c)

NextCover == \E c \in Clients : CoverStep(c)

SpecCover == InitCover /\ [][NextCover]_vars

\* ---------------------------------------------------------------- properties

\* the client whose handler took the step is the one named in what the step sent
ActedAt(c, label) == pc[c] = label /\ sent'.client = c

\* a watchlist of owner e named n is in the store
Exists(store, e, n) ==
    \E i \in 1..Len(store) : store[i].user_email = e /\ store[i].name = n

\* the documents of a collection that belong to other owners than e, in store order
Foreign(store, e) == SelectSeq(store, LAMBDA d : d.user_email # e)

IsPrefix(s, t) == Len(s) <= Len(t) /\ \A i \in 1..Len(s) : s[i] = t[i]

\* C1: in every reachable state there is at most one watchlist for any pair
\* (owner_email, name), also when two createWatchlist requests of the same owner and
\* name are in flight at once and their find_one and insert_one steps interleave.
C1_UniqueOwnerName ==
    \A i, j \in 1..Len(watchlists) :
        (watchlists[i].user_email = watchlists[j].user_email
            /\ watchlists[i].name = watchlists[j].name) => i = j

\* what the find_one step and the insert_one step of create_watchlist do
C2_CreateStep ==
    \A c \in Clients :
        /\ ActedAt(c, "cw_find") =>
              /\ sent'.status = 400 <=> Exists(watchlists, req[c].email, req[c].name)
              /\ sent'.status = 400 => pc'[c] = "idle"
              /\ sent'.status # 400 => sent'.status = 0 /\ pc'[c] = "cw_insert"
              /\ UNCHANGED stores
        /\ ActedAt(c, "cw_insert") =>
              /\ ~Exists(watchlists, req[c].email, req[c].name)
              /\ req[c].email = session[c]
              /\ watchlists' = Append(watchlists, [name |-> req[c].name,
                                                   user_email |-> session[c],
                                                   movies |-> <<>>])
              /\ sent'.status = 200
              /\ sent'.docs = <<watchlists'[Len(watchlists')]>>
              /\ UNCHANGED <<users, journals>>

\* C2: with one request at a time, createWatchlist(name) under a session of e answers
\* 400 and leaves the stores unchanged if and only if a watchlist (e, name) exists,
\* whatever its movies; a watchlist of that name of another owner does not block it;
\* on success exactly one watchlist (e, name, no movies) is appended, all others kept.
C2_DuplicateNameIff == [][C2_CreateStep]_vars

C2_Witness ==
    /\ sent.req.op = "create"
    /\ sent.status = 400
    /\ \E i \in 1..Len(watchlists) :
          /\ watchlists[i].user_email = session[sent.client]
          /\ watchlists[i].name = sent.req.name
          /\ watchlists[i].movies # <<>>

\* the documents of the last response belong to the session it was sent to
C3_ReturnsOwn ==
    /\ (sent.status = 200 /\ sent.req.op \in GuardedOps) =>
          \A i \in 1..Len(sent.docs) : sent.docs[i].user_email = session[sent.client]
    /\ sent.req.op = "cover" =>
          \A i \in 1..Len(sent.req.doc) : sent.req.doc[i].user_email = session[sent.client]

\* a step of a client leaves the documents of every other owner as they were
C3_LeavesForeign ==
    \A c \in Clients :
        sent'.client = c =>
            /\ Foreign(watchlists', session[c]) = Foreign(watchlists, session[c])
            /\ Foreign(journals', session[c]) = Foreign(journals, session[c])

\* C3: every watchlist or journal entry an operation returns (or composes a cover
\* from) under a session of owner A has owner A, and no step of that operation
\* changes a watchlist or journal entry of another owner.
C3_OwnershipIsolation == [][C3_ReturnsOwn' /\ C3_LeavesForeign]_vars

C3_Witness ==
    /\ sent.req.op = "get"
    /\ sent.status = 404
    /\ session[sent.client] \in Emails
    /\ \E i \in 1..Len(watchlists) :
          /\ watchlists[i].name = sent.req.name
          /\ watchlists[i].user_email # session[sent.client]

\* the store accesses of the session-guarded handlers
GuardedLabels == Labels \ {"idle", "auth_find", "auth_insert"}

\* a guarded request received without a session is answered in that same step
C4_RejectStep ==
    \A c \in Clients :
        /\ (ActedAt(c, "idle") /\ session[c] = NoEmail
                /\ pc'[c] # "auth_find" /\ sent'.req.op # "auth") =>
              /\ sent'.status = 401
              /\ sent'.req.op \in GuardedOps
              /\ pc'[c] = "idle"
              /\ UNCHANGED <<stores, session>>
        /\ pc'[c] \in GuardedLabels => session'[c] # NoEmail

\* C4: a session-guarded operation called without user_email in the session answers
\* 401 at once, leaves users, watchlists and journals as they were, and its handler
\* never reaches a step that reads or writes a collection.
C4_UnauthorizedNoSideEffect == [][C4_RejectStep]_vars

C4_Witness ==
    /\ sent.status = 401
    /\ sent.req.op = "add"
    /\ session[sent.client] = NoEmail
    /\ \E i \in 1..Len(watchlists) : watchlists[i].name = sent.req.name

\* the update_one step of add_movie_to_watchlist when its filter matches nothing
C5_AddStep ==
    \A c \in Clients :
        (ActedAt(c, "am_update") /\ ~Exists(watchlists, req[c].email, req[c].name)) =>
            /\ sent'.status = 404
            /\ UNCHANGED stores

\* C5: addMovie(name, movie) under a session of e, when no watchlist (e, name)
\* exists, answers 404 and creates nothing: the store is the same before and after,
\* also when a watchlist of that name exists under another owner.
C5_AddMissingNotFound == [][C5_AddStep]_vars

C5_Witness ==
    /\ sent.req.op = "add"
    /\ sent.status = 404
    /\ ~Exists(watchlists, session[sent.client], sent.req.name)
    /\ \E i \in 1..Len(watchlists) : watchlists[i].name = sent.req.name

\* the first document of owner e named n
FirstMatch(store, e, n) ==
    CHOOSE i \in 1..Len(store) :
        /\ store[i].user_email = e /\ store[i].name = n
        /\ \A j \in 1..(i - 1) : ~(store[j].user_email = e /\ store[j].name = n)

\* the update_one step that answers 200, the find_one step of get_watchlist, and every step
C6_AppendStep ==
    /\ \A c \in Clients :
          (ActedAt(c, "am_update") /\ sent'.status = 200) =>
              /\ Exists(watchlists, req[c].email, req[c].name)
              /\ Len(watchlists') = Len(watchlists)
              /\ LET i == FirstMatch(watchlists, req[c].email, req[c].name)
                 IN  /\ watchlists'[i].movies = watchlists[i].movies \o <<req[c].movie>>
                     /\ Len(watchlists'[i].movies) = Len(watchlists[i].movies) + 1
                     /\ watchlists'[i].name = watchlists[i].name
                     /\ watchlists'[i].user_email = watchlists[i].user_email
                     /\ \A j \in 1..Len(watchlists) : j # i => watchlists'[j] = watchlists[j]
              /\ GetWatchlistStatus(watchlists', req[c].email, req[c].name) = 200
              /\ LET got == FindOneWatchlist(watchlists', req[c].email, req[c].name)[1].movies
                 IN  got[Len(got)] = req[c].movie
    /\ \A c \in Clients :
          (ActedAt(c, "gw_find") /\ Exists(watchlists, req[c].email, req[c].name)) =>
              /\ sent'.status = 200
              /\ sent'.docs = <<watchlists[FirstMatch(watchlists, req[c].email, req[c].name)]>>
    /\ Len(watchlists) <= Len(watchlists')
    /\ \A i \in 1..Len(watchlists) : IsPrefix(watchlists[i].movies, watchlists'[i].movies)

\* C6: a successful addMovie(name, m) on watchlist (e, name) appends m at the end:
\* the length grows by exactly 1, earlier elements keep value and position, a
\* duplicate is kept, every other watchlist is unchanged, and getWatchlist(name) by e
\* on the new store answers the watchlist with m last.  At every step each
\* watchlist's movie sequence is a prefix of its next one.
C6_AppendOrderPreserving == [][C6_AppendStep]_vars

C6_Witness ==
    /\ sent.req.op = "add"
    /\ sent.status = 200
    /\ \E i \in 1..Len(watchlists) :
          /\ watchlists[i].user_email = session[sent.client]
          /\ watchlists[i].name = sent.req.name
          /\ Len(watchlists[i].movies) = 2
          /\ watchlists[i].movies[1] = sent.req.movie
          /\ watchlists[i].movies[2] = sent.req.movie

FetchedIdx(ms, outs) ==
    {i \in 1..Len(ms) : i <= 4 /\ i <= Len(outs) /\ ms[i].poster_path # "" /\ outs[i] = "200"}

\* the position in ms of the k-th fetched poster, k counted from 0
NthFetched(ms, outs, k) ==
    CHOOSE i \in FetchedIdx(ms, outs) :
        Cardinality({j \in FetchedIdx(ms, outs) : j < i}) = k

ExpectedCanvas(n) ==
    IF n = 2 THEN [cols |-> 2, rows |-> 1, w |-> 1200, h |-> 900]
    ELSE [cols |-> 2, rows |-> 2, w |-> 1200, h |-> 1800]

PastesAt(im, x, y) == {i \in 1..Len(im.pastes) : im.pastes[i].x = x /\ im.pastes[i].y = y}

CoverLayoutOK(ms, outs, im) ==
    LET n == Cardinality(FetchedIdx(ms, outs))
        g == ExpectedCanvas(n)
    IN  /\ n = 0 => im.kind = "default"
        /\ n = 1 => /\ im.kind = "raw"
                    /\ im.src = ms[NthFetched(ms, outs, 0)].poster_path
                    /\ im.pastes = <<>>
        /\ n >= 2 =>
              /\ n <= 4
              /\ im.kind = "collage"
              /\ im.w = g.w /\ im.h = g.h
              /\ Len(im.pastes) = n
              /\ \A r \in 0..(g.rows - 1), k \in 0..(g.cols - 1) :
                    IF r * g.cols + k < n
                    THEN /\ Cardinality(PastesAt(im, 600 * k, 900 * r)) = 1
                         /\ \A i \in PastesAt(im, 600 * k, 900 * r) :
                               /\ im.pastes[i].src =
                                     ms[NthFetched(ms, outs, r * g.cols + k)].poster_path
                               /\ im.pastes[i].w = 600 /\ im.pastes[i].h = 900
                    ELSE PastesAt(im, 600 * k, 900 * r) = {}

\* C7: the cover as a function of n, the number of posters fetched with status 200
\* from the first 4 movies: n = 0 gives the default image, n = 1 the single poster
\* with no grid, n = 2 a 1200x900 canvas, n = 3 or 4 a 1200x1800 canvas; the i-th
\* fetched poster (in movie order) fills cell (i div cols, i mod cols) at 600x900,
\* cells from n on are blank, no two posters share a cell, and a movie at position
\* 5 or later contributes nothing.
C7_CoverLayout ==
    (sent.req.op = "cover" /\ sent.status = 200) =>
        CoverLayoutOK(sent.req.doc[1].movies, sent.req.outcomes, sent.image)

C7_Witness ==
    /\ sent.req.op = "cover"
    /\ sent.status = 200
    /\ Len(sent.req.doc[1].movies) = 5
    /\ sent.req.doc[1].movies[5].poster_path # ""
    /\ Cardinality(FetchedIdx(sent.req.doc[1].movies, sent.req.outcomes)) = 3
    /\ sent.image.kind = "collage"

\* C8: for an existing watchlist, a poster whose fetch fails, by a status other than
\* 2xx or by the fetch itself raising, is the only one left out; the request still
\* ends with an image (fewer posters or the default image), never with an error.
C8_FetchFailureIsolated ==
    (sent.req.op = "cover" /\ sent.req.doc # <<>>) =>
        /\ sent.status = 200
        /\ sent.image.kind \in {"default", "raw", "collage"}

RECURSIVE MoviesHeld(_, _, _)
MoviesHeld(store, e, n) ==
    IF store = <<>> THEN 0
    ELSE (IF Head(store).user_email = e /\ Head(store).name = n
          THEN Len(Head(store).movies) ELSE 0) + MoviesHeld(Tail(store), e, n)

\* the movies held for each (owner, name) are as many as the 200 answers given
C9_NoneLost ==
    \A e \in Emails, n \in WNames : MoviesHeld(watchlists, e, n) = acked[<<e, n>>]

\* the update_one step of add_movie_to_watchlist when its filter matches
C9_AddStep ==
    \A c \in Clients :
        (ActedAt(c, "am_update") /\ Exists(watchlists, req[c].email, req[c].name)) =>
            /\ sent'.status = 200
            /\ MoviesHeld(watchlists', req[c].email, req[c].name)
                  = MoviesHeld(watchlists, req[c].email, req[c].name) + 1
            /\ Len(FindOneWatchlist(watchlists', req[c].email, req[c].name)[1].movies)
                  >= req[c].len0 + 1

\* C9: the append of addMovie is one atomic store step: whatever the interleaving
\* of addMovie requests on an existing watchlist (e, name), each of them answers 200
\* and adds one element, so the movies held for (e, name) are as many as the
\* successful answers given: no append is lost or overwritten.
C9_AtomicAppend == [][C9_NoneLost' /\ C9_AddStep]_vars

\* both requests were received at the same length of the sequence, both answered
\* 200, and the sequence now ends with the two movies
C9_Witness ==
    /\ sent.req.op = "add"
    /\ sent.status = 200
    /\ \E i \in 1..Len(watchlists) :
          /\ watchlists[i].user_email = session[sent.client]
          /\ watchlists[i].name = sent.req.name
          /\ Len(watchlists[i].movies) = sent.req.len0 + 2
          /\ watchlists[i].movies[sent.req.len0 + 2] = sent.req.movie
          /\ watchlists[i].movies[sent.req.len0 + 1] # sent.req.movie
          /\ acked[<<watchlists[i].user_email, watchlists[i].name>>] = sent.req.len0 + 2

Quiescent == \A c \in Clients : pc[c] = "idle"

\* between requests, the users are the verified emails under their first names
C10_FirstNameKept ==
    Quiescent =>
        /\ \A e \in Emails :
              (\E i \in 1..Len(users) : users[i].email = e) <=> verified[e] # NoName
        /\ \A i \in 1..Len(users) : users[i].name = verified[users[i].email]
        /\ \A c \in Clients : session[c] # NoEmail => verified[session[c]] # NoName

\* users only grow, and a verification that raises changes nothing
C10_AuthStep ==
    /\ IsPrefix(users, users')
    /\ \A c \in Clients :
          (ActedAt(c, "idle") /\ sent'.req.op = "auth" /\ sent'.status # 0) =>
              /\ sent'.status = 401
              /\ users' = users
              /\ session' = session
              /\ verified' = verified

\* C10: with one request at a time, the users collection holds a record for email e
\* if and only if a verification for e has succeeded, its name is the one the first
\* such verification yielded whatever later logins yield, no record is deleted or
\* changed, and a failed verification creates no user and binds no session.
C10_FirstWriteWins == [][C10_FirstNameKept' /\ C10_AuthStep]_vars

C10_Witness ==
    /\ sent.req.op = "auth"
    /\ sent.status = 200
    /\ sent.req.uname = "Bob"
    /\ sent.docs = <<[email |-> sent.req.email, name |-> "Ann"]>>
    /\ users = <<[email |-> sent.req.email, name |-> "Ann"]>>
    /\ session[sent.client] = sent.req.email

====
